---- MODULE Spec2Model ----
(***************************************************************************)
(* Model of singer/__init__.py: the four message classes, their canonical  *)
(* mapping (asdict), the JSON codec (format_message / parse_message) and   *)
(* the write_* helpers that emit lines on sys.stdout.                      *)
(*                                                                         *)
(* Python values and JSON values are kept apart: json.dumps maps a Python  *)
(* value to a JSON value (tuple -> array, bytes -> TypeError), json.loads  *)
(* maps a JSON value back (array -> list).  Every value is a record of the *)
(* same shape [k, i, s, l, d] so that any two of them can be compared:     *)
(*   k  the Python type name (or the JSON kind)                            *)
(*   i  the integer payload, s the text payload                            *)
(*   l  the items of a list / tuple / array                                *)
(*   d  the items of a dict / object, a set of <<key, value>> pairs        *)
(***************************************************************************)
EXTENDS Integers, Sequences, FiniteSets, TLC

VARIABLES
    msg,      \* the Message object most recently constructed
    other,    \* a second Message object, kept for comparison
    cmp,      \* outcome of the last msg == other evaluation
    line,     \* the text line handed to parse_message
    lineOf,   \* the Message the line was formatted from (NoMsg: external line)
    result,   \* outcome of the last parse_message(line) call
    stdout,   \* sys.stdout: the sequence of write / flush calls received
    calls     \* the calls to write_* made so far by the single caller

vars == <<msg, other, cmp, line, lineOf, result, stdout, calls>>

-----------------------------------------------------------------------------
(* Bounds *)

MaxVersion == 1
MaxRecords == 2
MaxCalls == 2

-----------------------------------------------------------------------------
(* Python values *)

PyVal(k, i, s, l, d) == [k |-> k, i |-> i, s |-> s, l |-> l, d |-> d]

None == PyVal("NoneType", 0, "", <<>>, {})
PyInt(n) == PyVal("int", n, "", <<>>, {})
PyBool(b) == PyVal("bool", IF b THEN 1 ELSE 0, "", <<>>, {})
PyStr(s) == PyVal("str", 0, s, <<>>, {})
PyBytes(s) == PyVal("bytes", 0, s, <<>>, {})
PyList(l) == PyVal("list", 0, "", l, {})
PyTuple(l) == PyVal("tuple", 0, "", l, {})
PyDict(d) == PyVal("dict", 0, "", <<>>, d)

\* isinstance(v, (t1, t2, ...)) for the builtin types used by the module
isinstance(v, types) == v.k \in types

\* k in d / d[k] / d.get(k) on a dict
HasKey(v, k) == \E p \in v.d : p[1] = k
GetItem(v, k) == (CHOOSE p \in v.d : p[1] = k)[2]
DictGet(v, k) == IF HasKey(v, k) THEN GetItem(v, k) ELSE None

\* x in s for a str s: substring test, over the strings of the model
StrContains(s, x) == s \in {x, "my" \o x}

-----------------------------------------------------------------------------
(* JSON values: the content of one text line *)

JNull == PyVal("null", 0, "", <<>>, {})
JBool(b) == PyVal("boolean", IF b THEN 1 ELSE 0, "", <<>>, {})
JNumber(n) == PyVal("number", n, "", <<>>, {})
JString(s) == PyVal("string", 0, s, <<>>, {})
JArray(l) == PyVal("array", 0, "", l, {})
JObject(d) == PyVal("object", 0, "", <<>>, d)

\* a line that is not JSON at all, such as: not json
NotJson == PyVal("invalid", 0, "not json", <<>>, {})
\* no line yet
NoLine == PyVal("", 0, "", <<>>, {})

\* json.dumps raises TypeError on a value it cannot encode
RECURSIVE Serializable(_)
Serializable(v) ==
    CASE v.k \in {"NoneType", "bool", "int", "str"} -> TRUE
      [] v.k \in {"list", "tuple"} -> \A n \in 1..Len(v.l) : Serializable(v.l[n])
      [] v.k = "dict" -> \A p \in v.d : Serializable(p[2])
      [] OTHER -> FALSE

\* json.dumps(v), for a Serializable v
RECURSIVE json_dumps(_)
json_dumps(v) ==
    CASE v.k = "NoneType" -> JNull
      [] v.k = "bool" -> JBool(v.i = 1)
      [] v.k = "int" -> JNumber(v.i)
      [] v.k = "str" -> JString(v.s)
      [] v.k \in {"list", "tuple"} -> JArray([n \in 1..Len(v.l) |-> json_dumps(v.l[n])])
      [] v.k = "dict" -> JObject({<<p[1], json_dumps(p[2])>> : p \in v.d})

\* json.loads(text), for a text that is valid JSON
RECURSIVE json_loads(_)
json_loads(j) ==
    CASE j.k = "null" -> None
      [] j.k = "boolean" -> PyBool(j.i = 1)
      [] j.k = "number" -> PyInt(j.i)
      [] j.k = "string" -> PyStr(j.s)
      [] j.k = "array" -> PyList([n \in 1..Len(j.l) |-> json_loads(j.l[n])])
      [] j.k = "object" -> PyDict({<<p[1], json_loads(p[2])>> : p \in j.d})

-----------------------------------------------------------------------------
(* Message classes *)

\* an attribute the class does not have
NoAttr == PyVal("<unset>", 0, "", <<>>, {})

Object(cls, stream, record, version, schema, key_properties, value) ==
    [cls |-> cls, stream |-> stream, record |-> record, version |-> version,
     schema |-> schema, key_properties |-> key_properties, value |-> value]

\* no object / the value None returned by a function / a non-Message object
NoMsg == Object("", NoAttr, NoAttr, NoAttr, NoAttr, NoAttr, NoAttr)
NoneObj == Object("NoneType", NoAttr, NoAttr, NoAttr, NoAttr, NoAttr, NoAttr)
PlainObj == Object("object", NoAttr, NoAttr, NoAttr, NoAttr, NoAttr, NoAttr)

MessageClasses ==
    {"RecordMessage", "SchemaMessage", "StateMessage", "ActivateVersionMessage"}

\* isinstance(o, Message)
IsMessage(o) == o.cls \in MessageClasses

\* RecordMessage.__init__
RecordMessage(stream, record, version) ==
    Object("RecordMessage", stream, record, version, NoAttr, NoAttr, NoAttr)

\* SchemaMessage.__init__
SchemaMessage(stream, schema, key_properties) ==
    Object("SchemaMessage", stream, NoAttr, NoAttr, schema, key_properties, NoAttr)

\* StateMessage.__init__
StateMessage(value) ==
    Object("StateMessage", NoAttr, NoAttr, NoAttr, NoAttr, NoAttr, value)

\* ActivateVersionMessage.__init__
ActivateVersionMessage(stream, version) ==
    Object("ActivateVersionMessage", stream, NoAttr, version, NoAttr, NoAttr, NoAttr)

\* RecordMessage.asdict with the version tested for truth (if self.version:)
RecordMessage_asdict_truthy(self) ==
    LET items == {<<"type", PyStr("RECORD")>>,
                  <<"stream", self.stream>>,
                  <<"record", self.record>>}
    IN  PyDict(IF self.version # None /\ self.version # PyInt(0)
               THEN items \cup {<<"version", self.version>>}
               ELSE items)

\* RecordMessage.asdict
RecordMessage_asdict(self) ==
    LET items == {<<"type", PyStr("RECORD")>>,
                  <<"stream", self.stream>>,
                  <<"record", self.record>>}
    IN  PyDict(IF self.version # None
               THEN items \cup {<<"version", self.version>>}
               ELSE items)

\* SchemaMessage.asdict
SchemaMessage_asdict(self) ==
    PyDict({<<"type", PyStr("SCHEMA")>>,
            <<"stream", self.stream>>,
            <<"schema", self.schema>>,
            <<"key_properties", self.key_properties>>})

\* StateMessage.asdict
StateMessage_asdict(self) ==
    PyDict({<<"type", PyStr("STATE")>>,
            <<"value", self.value>>})

\* ActivateVersionMessage.asdict
ActivateVersionMessage_asdict(self) ==
    PyDict({<<"type", PyStr("ACTIVATE_VERSION")>>,
            <<"stream", self.stream>>,
            <<"version", self.version>>})

\* message.asdict(), dispatched on the class of the object
asdict(self) ==
    CASE self.cls = "RecordMessage" -> RecordMessage_asdict(self)
      [] self.cls = "SchemaMessage" -> SchemaMessage_asdict(self)
      [] self.cls = "StateMessage" -> StateMessage_asdict(self)
      [] self.cls = "ActivateVersionMessage" -> ActivateVersionMessage_asdict(self)

\* Message.__eq__ comparing the type tags only
Message_eq_by_type(self, o) ==
    IsMessage(o) /\ GetItem(asdict(self), "type") = GetItem(asdict(o), "type")

\* Message.__eq__
Message_eq(self, o) == IsMessage(o) /\ asdict(self) = asdict(o)

-----------------------------------------------------------------------------
(* Codec *)

\* the outcome of a call: the exception raised ("" when it returns), the key
\* named by the missing-required-key Exception, the value / object returned
Returns(val, obj) == [exc |-> "", key |-> "", val |-> val, obj |-> obj]
Raises(exc, key) == [exc |-> exc, key |-> key, val |-> None, obj |-> NoMsg]
NoResult == [exc |-> "<none>", key |-> "", val |-> None, obj |-> NoMsg]

\* format_message: json.dumps(message.asdict()); TypeError when a field of
\* the message cannot be encoded
CanFormat(message) == Serializable(asdict(message))
format_message(message) == json_dumps(asdict(message))

\* k in m, for the Python value m; TypeError when m is not a container
Iterable(m) == m.k \in {"dict", "list", "tuple", "str"}
Contains(m, k) ==
    CASE m.k = "dict" -> HasKey(m, k)
      [] m.k \in {"list", "tuple"} -> \E n \in 1..Len(m.l) : m.l[n] = PyStr(k)
      [] m.k = "str" -> StrContains(m.s, k)

\* _required_key that reads the key with m.get(k), giving None when absent
_required_key_get(m, k) ==
    IF ~Iterable(m) THEN Raises("TypeError", "")
    ELSE IF m.k # "dict" THEN Raises("TypeError", "")
    ELSE Returns(DictGet(m, k), NoMsg)

\* _required_key
_required_key(m, k) ==
    IF ~Iterable(m) THEN Raises("TypeError", "")
    ELSE IF ~Contains(m, k) THEN Raises("Exception", k)
    ELSE IF m.k # "dict" THEN Raises("TypeError", "")
    ELSE Returns(GetItem(m, k), NoMsg)

\* the first call of a left-to-right sequence of calls that raises, or, when
\* none raises, the last one
RECURSIVE FirstRaise(_)
FirstRaise(rs) ==
    IF Len(rs) = 1 \/ Head(rs).exc # "" THEN Head(rs) ELSE FirstRaise(Tail(rs))

\* parse_message, the RECORD branch
parse_record(obj) ==
    LET stream == _required_key(obj, "stream")
        record == _required_key(obj, "record")
        args == FirstRaise(<<stream, record>>)
    IN  IF args.exc # "" THEN args
        ELSE Returns(None, RecordMessage(stream.val, record.val,
                                         DictGet(obj, "version")))

\* parse_message, the SCHEMA branch
parse_schema(obj) ==
    LET stream == _required_key(obj, "stream")
        schema == _required_key(obj, "schema")
        key_properties == _required_key(obj, "key_properties")
        args == FirstRaise(<<stream, schema, key_properties>>)
    IN  IF args.exc # "" THEN args
        ELSE Returns(None, SchemaMessage(stream.val, schema.val,
                                         key_properties.val))

\* parse_message, the STATE branch
parse_state(obj) ==
    LET value == _required_key(obj, "value")
    IN  IF value.exc # "" THEN value
        ELSE Returns(None, StateMessage(value.val))

\* parse_message ending in an else branch that raises on an unknown tag
parse_message_strict(text) ==
    IF text.k = "invalid" THEN Raises("JSONDecodeError", "")
    ELSE LET obj == json_loads(text)
             msg_type == _required_key(obj, "type")
         IN  IF msg_type.exc # "" THEN msg_type
             ELSE IF msg_type.val = PyStr("RECORD") THEN parse_record(obj)
             ELSE IF msg_type.val = PyStr("SCHEMA") THEN parse_schema(obj)
             ELSE IF msg_type.val = PyStr("STATE") THEN parse_state(obj)
             ELSE Raises("Exception", "")

\* parse_message: a tag that matches no branch falls off the end of the
\* function, which returns None
parse_message(text) ==
    IF text.k = "invalid" THEN Raises("JSONDecodeError", "")
    ELSE LET obj == json_loads(text)
             msg_type == _required_key(obj, "type")
         IN  IF msg_type.exc # "" THEN msg_type
             ELSE IF msg_type.val = PyStr("RECORD") THEN parse_record(obj)
             ELSE IF msg_type.val = PyStr("SCHEMA") THEN parse_schema(obj)
             ELSE IF msg_type.val = PyStr("STATE") THEN parse_state(obj)
             ELSE Returns(None, NoneObj)

-----------------------------------------------------------------------------
(* Writing to sys.stdout *)

\* sys.stdout.write(text + nl line terminators) / sys.stdout.flush()
Write(text, nl) == [op |-> "write", text |-> text, nl |-> nl]
Flush == [op |-> "flush", text |-> NoLine, nl |-> 0]

\* the outcome of a write_* call: the exception raised ("" when it returns),
\* sys.stdout after the call and the last Message the call constructed
Wrote(exc, out, made) == [exc |-> exc, out |-> out, made |-> made]

\* write_message without the flush
write_message_unflushed(out, message) ==
    IF ~CanFormat(message) THEN Wrote("TypeError", out, message)
    ELSE Wrote("", out \o <<Write(format_message(message), 1)>>, message)

\* write_message
write_message(out, message) ==
    IF ~CanFormat(message) THEN Wrote("TypeError", out, message)
    ELSE Wrote("", out \o <<Write(format_message(message), 1), Flush>>, message)

\* write_record
write_record(out, stream_name, record) ==
    write_message(out, RecordMessage(stream_name, record, None))

\* write_records
RECURSIVE write_records(_, _, _)
write_records(out, stream_name, records) ==
    IF records = <<>> THEN Wrote("", out, NoMsg)
    ELSE LET r == write_record(out, stream_name, Head(records))
         IN  IF r.exc # "" \/ Len(records) = 1 THEN r
             ELSE write_records(r.out, stream_name, Tail(records))

\* write_schema without the wrapping of a bare string
write_schema_unwrapped(out, stream_name, schema, key_properties) ==
    IF ~isinstance(key_properties, {"list"}) THEN Wrote("Exception", out, NoMsg)
    ELSE write_message(out, SchemaMessage(stream_name, schema, key_properties))

\* write_schema without the test that key_properties is a list
write_schema_unchecked(out, stream_name, schema, key_properties) ==
    LET kp == IF isinstance(key_properties, {"str", "bytes"})
              THEN PyList(<<key_properties>>)
              ELSE key_properties
    IN  write_message(out, SchemaMessage(stream_name, schema, kp))

\* write_schema
write_schema(out, stream_name, schema, key_properties) ==
    LET kp == IF isinstance(key_properties, {"str", "bytes"})
              THEN PyList(<<key_properties>>)
              ELSE key_properties
    IN  IF ~isinstance(kp, {"list"}) THEN Wrote("Exception", out, NoMsg)
        ELSE write_message(out, SchemaMessage(stream_name, schema, kp))

\* write_state
write_state(out, value) == write_message(out, StateMessage(value))

-----------------------------------------------------------------------------
(* Inputs *)

Streams == {PyStr("users"), PyStr("orders")}

\* record payloads; the last one is a value json.dumps cannot encode
RecordVals == {PyDict({}), PyDict({<<"id", PyInt(1)>>}), PyBytes("raw")}

Versions == {None} \cup {PyInt(n) : n \in 0..MaxVersion}

Schemas == {PyDict({}), PyDict({<<"type", PyStr("object")>>})}

\* the schemas handed to write_schema
WrittenSchemas == {PyDict({<<"type", PyStr("object")>>})}

KeyProps == {PyStr("id"), PyList(<<PyStr("id")>>), PyList(<<>>),
             PyTuple(<<PyStr("id")>>), PyBytes("id"),
             PyInt(42), PyList(<<PyInt(42)>>)}

StateVals == {PyDict({}), PyDict({<<"users", PyStr("2017-06-19")>>})}

\* sequences of at most n elements of S
RECURSIVE SeqsUpTo(_, _)
SeqsUpTo(S, n) ==
    IF n = 0 THEN {<<>>}
    ELSE LET shorter == SeqsUpTo(S, n - 1)
         IN  shorter \cup {Append(q, x) : q \in shorter, x \in S}

\* the value an external line carries under each key
FieldValue(k) ==
    CASE k = "stream" -> JString("users")
      [] k = "record" -> JObject({<<"id", JNumber(1)>>})
      [] k = "schema" -> JObject({})
      [] k = "key_properties" -> JArray(<<JString("id")>>)
      [] k = "value" -> JObject({})
      [] k = "version" -> JNumber(0)

TypeTags == {"RECORD", "SCHEMA", "STATE", "ACTIVATE_VERSION", "OTHER"}
TypeValues == {JString(t) : t \in TypeTags} \cup {JNumber(5)}

\* the keys, besides type, that the external lines of a tag may carry
KeysFor(t) ==
    CASE t = JString("RECORD") -> {"stream", "record", "version"}
      [] t = JString("SCHEMA") -> {"stream", "schema", "key_properties"}
      [] t = JString("STATE") -> {"value", "stream"}
      [] OTHER -> {"stream", "version", "value"}

Members(keys) == {<<k, FieldValue(k)>> : k \in keys}

ObjectLines ==
    {JObject(Members(keys)) : keys \in SUBSET {"stream", "record", "value"}}
    \cup UNION {{JObject({<<"type", t>>} \cup Members(keys)) : keys \in SUBSET KeysFor(t)}
                : t \in TypeValues}

\* lines that are not JSON, or JSON that is not an object
NonObjectLines ==
    {NotJson, JArray(<<>>), JArray(<<JString("type")>>), JString("abc"),
     JString("mytype"), JNumber(42), JNull, JBool(TRUE)}

InputLines == ObjectLines \cup NonObjectLines

-----------------------------------------------------------------------------
(* State machine *)

Init ==
    /\ msg = NoMsg
    /\ other = NoMsg
    /\ cmp = "none"
    /\ line = NoLine
    /\ lineOf = NoMsg
    /\ result = NoResult
    /\ stdout = <<>>
    /\ calls = <<>>

\* a caller constructs a message
NewRecordMessage ==
    \E stream \in Streams, record \in RecordVals, version \in Versions :
        /\ msg' = RecordMessage(stream, record, version)
        /\ cmp' = "none"
        /\ UNCHANGED <<other, line, lineOf, result, stdout, calls>>

NewSchemaMessage ==
    \E stream \in Streams, schema \in Schemas, key_properties \in KeyProps :
        /\ msg' = SchemaMessage(stream, schema, key_properties)
        /\ cmp' = "none"
        /\ UNCHANGED <<other, line, lineOf, result, stdout, calls>>

NewStateMessage ==
    \E value \in StateVals :
        /\ msg' = StateMessage(value)
        /\ cmp' = "none"
        /\ UNCHANGED <<other, line, lineOf, result, stdout, calls>>

NewActivateVersionMessage ==
    \E stream \in Streams, n \in 0..MaxVersion :
        /\ msg' = ActivateVersionMessage(stream, PyInt(n))
        /\ cmp' = "none"
        /\ UNCHANGED <<other, line, lineOf, result, stdout, calls>>

\* the caller keeps the message (or some object that is not a Message) to
\* compare later messages with
Keep ==
    /\ msg # NoMsg
    /\ \E o \in {msg, PlainObj} : other' = o
    /\ cmp' = "none"
    /\ UNCHANGED <<msg, line, lineOf, result, stdout, calls>>

\* msg == other
Compare ==
    /\ msg # NoMsg
    /\ other # NoMsg
    /\ cmp' = IF Message_eq(msg, other) THEN "True" ELSE "False"
    /\ UNCHANGED <<msg, other, line, lineOf, result, stdout, calls>>

\* line = format_message(msg); when json.dumps raises there is no line
FormatMessage ==
    /\ msg # NoMsg
    /\ CanFormat(msg)
    /\ line' = format_message(msg)
    /\ lineOf' = msg
    /\ result' = NoResult
    /\ UNCHANGED <<msg, other, cmp, stdout, calls>>

\* a line arrives from an upstream source
ReadLine ==
    \E text \in InputLines :
        /\ line' = text
        /\ lineOf' = NoMsg
        /\ result' = NoResult
        /\ UNCHANGED <<msg, other, cmp, stdout, calls>>

\* result = parse_message(line)
ParseMessage ==
    /\ line # NoLine
    /\ result' = parse_message(line)
    /\ UNCHANGED <<msg, other, cmp, line, lineOf, stdout, calls>>

\* the record of one write_* call and of how it ended
Call(fn, stream_name, records, schema, key_properties, value, exc) ==
    [fn |-> fn, stream_name |-> stream_name, records |-> records,
     schema |-> schema, key_properties |-> key_properties, value |-> value,
     exc |-> exc]

\* a write_* call, as it ended with r, is made: sys.stdout is as the call
\* left it and msg is the last Message the call constructed
WriteRecord ==
    \E stream_name \in Streams, record \in RecordVals :
        LET r == write_record(stdout, stream_name, record)
        IN  /\ Len(calls) < MaxCalls
            /\ stdout' = r.out
            /\ calls' = Append(calls, Call("write_record", stream_name, <<record>>,
                                           NoAttr, NoAttr, NoAttr, r.exc))
            /\ msg' = IF r.made = NoMsg THEN msg ELSE r.made
            /\ cmp' = "none"
            /\ UNCHANGED <<other, line, lineOf, result>>

WriteRecords ==
    \E stream_name \in Streams, records \in SeqsUpTo(RecordVals, MaxRecords) :
        LET r == write_records(stdout, stream_name, records)
        IN  /\ Len(calls) < MaxCalls
            /\ stdout' = r.out
            /\ calls' = Append(calls, Call("write_records", stream_name, records,
                                           NoAttr, NoAttr, NoAttr, r.exc))
            /\ msg' = IF r.made = NoMsg THEN msg ELSE r.made
            /\ cmp' = "none"
            /\ UNCHANGED <<other, line, lineOf, result>>

WriteSchema ==
    \E stream_name \in Streams, schema \in WrittenSchemas, key_properties \in KeyProps :
        LET r == write_schema(stdout, stream_name, schema, key_properties)
        IN  /\ Len(calls) < MaxCalls
            /\ stdout' = r.out
            /\ calls' = Append(calls, Call("write_schema", stream_name, <<>>,
                                           schema, key_properties, NoAttr, r.exc))
            /\ msg' = IF r.made = NoMsg THEN msg ELSE r.made
            /\ cmp' = "none"
            /\ UNCHANGED <<other, line, lineOf, result>>

WriteState ==
    \E value \in StateVals :
        LET r == write_state(stdout, value)
        IN  /\ Len(calls) < MaxCalls
            /\ stdout' = r.out
            /\ calls' = Append(calls, Call("write_state", NoAttr, <<>>,
                                           NoAttr, NoAttr, value, r.exc))
            /\ msg' = IF r.made = NoMsg THEN msg ELSE r.made
            /\ cmp' = "none"
            /\ UNCHANGED <<other, line, lineOf, result>>

\* messages and their comparison
NextMsg ==
    \/ NewRecordMessage
    \/ NewSchemaMessage
    \/ NewStateMessage
    \/ NewActivateVersionMessage
    \/ Keep
    \/ Compare

SpecMsg == Init /\ [][NextMsg]_vars

\* messages and the codec
NextCodec ==
    \/ NewRecordMessage
    \/ NewSchemaMessage
    \/ NewStateMessage
    \/ NewActivateVersionMessage
    \/ FormatMessage
    \/ ReadLine
    \/ ParseMessage

SpecCodec == Init /\ [][NextCodec]_vars

\* the write_* helpers
NextWrite ==
    \/ WriteRecord
    \/ WriteRecords
    \/ WriteSchema
    \/ WriteState

SpecWrite == Init /\ [][NextWrite]_vars

\* Schema messages, constructed directly and by write_schema
NextSchema ==
    \/ NewSchemaMessage
    \/ WriteSchema

SpecSchema == Init /\ [][NextSchema]_vars

-----------------------------------------------------------------------------
(* Properties of the codec, under SpecCodec *)

IsListOfStr(v) == v.k = "list" /\ \A n \in 1..Len(v.l) : v.l[n].k = "str"

\* a message whose fields have the documented types
ValidMessage(m) ==
    CASE m.cls = "RecordMessage" ->
            /\ m.stream.k = "str"
            /\ m.record.k = "dict" /\ Serializable(m.record)
            /\ m.version.k \in {"NoneType", "int"}
      [] m.cls = "SchemaMessage" ->
            /\ m.stream.k = "str"
            /\ m.schema.k = "dict" /\ Serializable(m.schema)
            /\ IsListOfStr(m.key_properties)
      [] m.cls = "StateMessage" ->
            m.value.k = "dict" /\ Serializable(m.value)
      [] m.cls = "ActivateVersionMessage" ->
            m.stream.k = "str" /\ m.version.k = "int"
      [] OTHER -> FALSE

\* the line was formatted from a message and has been parsed
RoundTripped == lineOf # NoMsg /\ result # NoResult

\* C1: for every valid message m of any of the four variants,
\* parse_message(format_message(m)) returns a message equal to m.
C1_RoundTrip ==
    (RoundTripped /\ ValidMessage(lineOf)) =>
        /\ result.exc = ""
        /\ IsMessage(result.obj)
        /\ Message_eq(result.obj, lineOf)

\* an external line that decodes to a JSON object and has been parsed
ParsedObject == line.k = "object" /\ result # NoResult

\* the keys parse_message is documented to require, in the documented order
RequiredKeys(obj) ==
    IF ~HasKey(obj, "type") THEN <<"type">>
    ELSE CASE GetItem(obj, "type") = JString("RECORD") -> <<"type", "stream", "record">>
           [] GetItem(obj, "type") = JString("SCHEMA") ->
                  <<"type", "stream", "schema", "key_properties">>
           [] GetItem(obj, "type") = JString("STATE") -> <<"type", "value">>
           [] OTHER -> <<"type">>

\* the positions of the required keys that the object lacks
Missing(obj) ==
    {n \in 1..Len(RequiredKeys(obj)) : ~HasKey(obj, RequiredKeys(obj)[n])}

FirstMissing(obj) ==
    RequiredKeys(obj)[CHOOSE n \in Missing(obj) : \A o \in Missing(obj) : n <= o]

\* C2: on a line that decodes to a JSON object lacking a required key,
\* parse_message raises the missing-required-key error naming the earliest
\* absent key in the order type; stream, record / stream, schema,
\* key_properties / value, and returns no message.
C2_FirstMissingKey ==
    (ParsedObject /\ Missing(line) # {}) =>
        result = Raises("Exception", FirstMissing(line))

\* C2 witness: a SCHEMA line lacking both schema and key_properties was
\* parsed and the error names schema.
C2_Witness ==
    /\ ParsedObject
    /\ HasKey(line, "type") /\ GetItem(line, "type") = JString("SCHEMA")
    /\ Cardinality(Missing(line)) = 2
    /\ result = Raises("Exception", "schema")

\* C3: on a line that is not valid JSON, or is JSON but not an object,
\* parse_message raises an error other than the missing-required-key error
\* and returns no message.
C3_MalformedInput ==
    (result # NoResult /\ line.k # "object") =>
        /\ result.exc \notin {"", "Exception"}
        /\ result.obj = NoMsg

\* C6: a Record's canonical mapping and its line carry the key version
\* exactly when a version was supplied, with that integer as value (0
\* included, never null); a RECORD line without the key parses to a Record
\* whose version is None.
C6_VersionByAbsence ==
    /\ msg.cls = "RecordMessage" =>
          /\ HasKey(asdict(msg), "version") <=> msg.version # None
          /\ msg.version # None => GetItem(asdict(msg), "version") = msg.version
    /\ lineOf.cls = "RecordMessage" =>
          /\ HasKey(line, "version") <=> lineOf.version # None
          /\ lineOf.version # None =>
                GetItem(line, "version") = JNumber(lineOf.version.i)
    /\ (result.exc = "" /\ result.obj.cls = "RecordMessage"
            /\ ~HasKey(line, "version")) =>
          result.obj.version = None

\* C6 witness: a Record with version 0 was formatted, the line carries
\* version 0, and parsing it gave version 0 back.
C6_Witness ==
    /\ lineOf.cls = "RecordMessage"
    /\ lineOf.version = PyInt(0)
    /\ HasKey(line, "version") /\ GetItem(line, "version") = JNumber(0)
    /\ result.exc = "" /\ result.obj.version = PyInt(0)

\* C6 witness of the parse side: an external RECORD line without version
\* parsed to a Record whose version is None
C6_ParsedWithoutVersion ==
    /\ lineOf = NoMsg
    /\ result.exc = "" /\ result.obj.cls = "RecordMessage"
    /\ ~HasKey(line, "version")
    /\ result.obj.version = None

RecognisedTags == {JString("RECORD"), JString("SCHEMA"), JString("STATE")}

\* the class parse_message builds for a recognised tag
ClassOf(tag) ==
    CASE tag = JString("RECORD") -> "RecordMessage"
      [] tag = JString("SCHEMA") -> "SchemaMessage"
      [] tag = JString("STATE") -> "StateMessage"

\* C8: for a JSON object whose type is present but is not RECORD, SCHEMA or
\* STATE, parse_message returns None and raises nothing, whatever other keys
\* the object has; for a recognised tag with all required keys present it
\* returns a message of the class the tag names.
C8_DispatchFallthrough ==
    (ParsedObject /\ HasKey(line, "type")) =>
        IF GetItem(line, "type") \notin RecognisedTags
        THEN result = Returns(None, NoneObj)
        ELSE Missing(line) = {} =>
                /\ result.exc = ""
                /\ result.obj.cls = ClassOf(GetItem(line, "type"))

\* C8 witness: an external ACTIVATE_VERSION line carrying stream and version
\* was parsed and None came back.
C8_Witness ==
    /\ ParsedObject
    /\ lineOf = NoMsg
    /\ HasKey(line, "type") /\ GetItem(line, "type") = JString("ACTIVATE_VERSION")
    /\ HasKey(line, "stream") /\ HasKey(line, "version")
    /\ result = Returns(None, NoneObj)

-----------------------------------------------------------------------------
(* Properties of message equality, under SpecMsg *)

\* C7: two messages compare equal exactly when their canonical mappings are
\* equal, which is exactly when they are of the same variant and agree on
\* every field; a message never equals a message of another variant.
C7_StructuralEquality ==
    (cmp # "none" /\ IsMessage(other)) =>
        /\ cmp = "True" <=> asdict(msg) = asdict(other)
        /\ cmp = "True" <=> msg = other
        /\ msg.cls # other.cls => cmp = "False"

\* C7 witness: two Records that differ in their version only were compared
\* and found unequal.
C7_Witness ==
    /\ cmp = "False"
    /\ msg.cls = "RecordMessage" /\ other.cls = "RecordMessage"
    /\ msg.stream = other.stream /\ msg.record = other.record
    /\ msg.version # other.version

\* two independently constructed Schema messages with the same fields were
\* compared and found equal
C7_EqualSchemas ==
    /\ cmp = "True"
    /\ msg.cls = "SchemaMessage" /\ other.cls = "SchemaMessage"

-----------------------------------------------------------------------------
(* Properties of write_schema and the SchemaMessage constructor, under
   SpecSchema *)

\* the call just made, in a step that makes one
IsCall(before, after) == Len(after) = Len(before) + 1
LastCall(cs) == cs[Len(cs)]

-----------------------------------------------------------------------------
(* Properties of the write_* helpers, under SpecWrite *)

\* the texts written to sys.stdout, in order
Texts(out) == SelectSeq(out, LAMBDA e : e.op = "write")

IsSchemaLine(text) ==
    text.k = "object" /\ HasKey(text, "type") /\ GetItem(text, "type") = JString("SCHEMA")

IsArrayOfStrings(j) == j.k = "array" /\ \A n \in 1..Len(j.l) : j.l[n].k = "string"

\* C5: no Schema message whose key_properties is neither a string nor a
\* list of strings (str or bytes, the two types the code takes for a string)
\* is ever constructed, and no SCHEMA line carrying such a key_properties is
\* ever written.
C5_InvalidKeyPropertiesRejected ==
    /\ msg.cls = "SchemaMessage" =>
          \/ msg.key_properties.k \in {"str", "bytes"}
          \/ /\ msg.key_properties.k = "list"
             /\ \A n \in 1..Len(msg.key_properties.l) :
                   msg.key_properties.l[n].k \in {"str", "bytes"}
    /\ \A n \in 1..Len(stdout) :
          (stdout[n].op = "write" /\ IsSchemaLine(stdout[n].text)) =>
              IsArrayOfStrings(GetItem(stdout[n].text, "key_properties"))

\* C9: a write_schema call either raises having written nothing, or appends
\* exactly one write of one SCHEMA line, with one line terminator, followed
\* by a flush; the key_properties of that line is an array, [s] when the
\* argument was the bare string s.
C9_WriteSchemaAllOrNothing ==
    [][(IsCall(calls, calls') /\ LastCall(calls').fn = "write_schema") =>
          LET c == LastCall(calls')
              n == Len(stdout)
          IN  \/ c.exc # "" /\ stdout' = stdout
              \/ /\ c.exc = ""
                 /\ Len(stdout') = n + 2
                 /\ SubSeq(stdout', 1, n) = stdout
                 /\ stdout'[n + 1].op = "write"
                 /\ stdout'[n + 1].nl = 1
                 /\ IsSchemaLine(stdout'[n + 1].text)
                 /\ GetItem(stdout'[n + 1].text, "key_properties").k = "array"
                 /\ c.key_properties.k = "str" =>
                       GetItem(stdout'[n + 1].text, "key_properties")
                           = JArray(<<JString(c.key_properties.s)>>)
                 /\ stdout'[n + 2] = Flush]_vars

\* C9 witness: after a call that wrote a line, write_schema was called with
\* 42, raised, and sys.stdout holds that one line still.
C9_Witness ==
    /\ Len(calls) = 2
    /\ calls[1].exc = ""
    /\ calls[2].fn = "write_schema"
    /\ calls[2].key_properties = PyInt(42)
    /\ calls[2].exc = "Exception"
    /\ Len(stdout) = 2

\* the messages a call is to write, in order
MessagesOf(c) ==
    CASE c.fn \in {"write_record", "write_records"} ->
            [n \in 1..Len(c.records) |-> RecordMessage(c.stream_name, c.records[n], None)]
      [] c.fn = "write_schema" ->
            IF c.key_properties.k \in {"str", "bytes"}
            THEN <<SchemaMessage(c.stream_name, c.schema, PyList(<<c.key_properties>>))>>
            ELSE IF c.key_properties.k = "list"
            THEN <<SchemaMessage(c.stream_name, c.schema, c.key_properties)>>
            ELSE <<>>
      [] c.fn = "write_state" -> <<StateMessage(c.value)>>

\* the messages of ms that come before the first one that cannot be encoded
RECURSIVE Encodable(_)
Encodable(ms) ==
    IF ms = <<>> \/ ~CanFormat(Head(ms)) THEN <<>>
    ELSE <<Head(ms)>> \o Encodable(Tail(ms))

\* what sys.stdout has received once the calls cs are made: for each message
\* written, its line with one terminator, then a flush
RECURSIVE ExpectedOut(_)
ExpectedOut(cs) ==
    IF cs = <<>> THEN <<>>
    ELSE LET c == LastCall(cs)
             written == Encodable(MessagesOf(c))
             emit(m) == <<Write(format_message(m), 1), Flush>>
             RECURSIVE emitAll(_)
             emitAll(ms) == IF ms = <<>> THEN <<>>
                            ELSE emit(Head(ms)) \o emitAll(Tail(ms))
         IN  ExpectedOut(SubSeq(cs, 1, Len(cs) - 1)) \o emitAll(written)

\* the lines of a RECORD stream: type, stream and record, and no version
RecordLine(stream_name, record) ==
    JObject({<<"type", JString("RECORD")>>,
             <<"stream", JString(stream_name.s)>>,
             <<"record", json_dumps(record)>>})

\* C10: sys.stdout has received, in call order, one write per message
\* written, of format_message of the message plus one line terminator, each
\* followed by a flush before the next write; a write_records call that
\* returns has written one RECORD line per record, in the order of its
\* argument, none with a version key.
C10_OutputInCallOrder ==
    /\ stdout = ExpectedOut(calls)
    /\ \A n \in 1..Len(stdout) :
          IF n % 2 = 1 THEN stdout[n].op = "write" /\ stdout[n].nl = 1
          ELSE stdout[n] = Flush
    /\ \A n \in 1..Len(stdout) :
          (stdout[n].op = "write"
                /\ GetItem(stdout[n].text, "type") = JString("RECORD")) =>
              ~HasKey(stdout[n].text, "version")
    /\ (Len(calls) = 1 /\ calls[1].fn = "write_records" /\ calls[1].exc = "") =>
          Texts(stdout) = [n \in 1..Len(calls[1].records) |->
                              Write(RecordLine(calls[1].stream_name,
                                               calls[1].records[n]), 1)]

\* C10 witness: after a write_state call, write_records was called with two
\* different records and sys.stdout holds three lines, the records' lines in
\* the order of the argument.
C10_Witness ==
    /\ Len(calls) = 2
    /\ calls[1].fn = "write_state"
    /\ calls[2].fn = "write_records" /\ calls[2].exc = ""
    /\ Len(calls[2].records) = 2
    /\ calls[2].records[1] # calls[2].records[2]
    /\ Len(stdout) = 6
    /\ stdout[3].text = RecordLine(calls[2].stream_name, calls[2].records[1])
    /\ stdout[5].text = RecordLine(calls[2].stream_name, calls[2].records[2])

====
